---- MODULE Spec2Model ----
(***************************************************************************)
(* Model of the email-backup service of TJM-NZ/home-server:                *)
(*   src/email-backup/backup.py    sync engine (backup_emails), the        *)
(*                                 built-in cleanup, search, CLI           *)
(*   src/email-backup/cleanup.py   retention engine (cleanup_old_emails)   *)
(*   src/email-backup/email_common.py  schema, label lookup                *)
(*                                                                         *)
(* One CLI process runs at a time.  The remote mailbox, the SQLite file,   *)
(* the files on disk and the running process are the state; every remote   *)
(* call and every database statement may raise.                            *)
(***************************************************************************)
EXTENDS Integers, Sequences, FiniteSets, TLC

(* ------------------------------ bounds --------------------------------- *)
\* number of messages in the remote mailbox
NumMsgs == 2
\* entries per listed page (the code asks for maxResults=100)
PageSize == 1
\* most rows the model lets cleanup_runs grow to
MaxRuns == 1
\* most rows a search returns (the LIMIT of search_emails, 50 in the code,
\* scaled to the mailboxes of the model)
SearchLimit == 1
\* most commands published to the commands topic
MaxCmds == 2
\* most steps of the clock of alerts.py
MaxTicks == 12

(* ------------------------- program constants --------------------------- *)
RETENTION_DAYS == 730
BACKUP_LABEL == "Backup"
KEEP_LABEL == "Keep"
\* alerts.py
PET_COOLDOWN_SECONDS == 300
COOLDOWN_SECONDS == 60
DISK_CHECK_INTERVAL == 300
DISK_WARNING_THRESHOLD == 80
\* the cooldown of send_disk_notification
DISK_ALERT_COOLDOWN == 3600
ALERT_OBJECTS == {"person", "car", "dog", "cat"}
PET_OBJECTS == {"dog", "cat"}

None == "None"
\* no pageToken / no nextPageToken; a token is <<k>>, for page k of its chain
NoToken == <<>>
GmailIds == 1..NumMsgs
\* the remote's id of a label name
LabelIdOf(name) == IF name = BACKUP_LABEL THEN "Label_1" ELSE "Label_2"
LabelNames == {BACKUP_LABEL, KEEP_LABEL}
\* the days on which a pass may run (the messages are dated 100 or 900)
Nows == {1000}
\* a MIME part: its filename (None: it has none) and its decoded payload
TextPart == [filename |-> None, payload |-> "text"]
PdfPart == [filename |-> "a.pdf", payload |-> "%PDF"]
EmptyPart == [filename |-> "empty.txt", payload |-> ""]
\* the messages a mailbox may hold: the Message-ID header (or none), the names
\* of the labels it carries, its date (in days), its parts, and the words of
\* its Subject header and of its plain-text body
MessageKinds ==
    { [hdr |-> "<a@x>", labels |-> {BACKUP_LABEL},             date |-> 100,
       parts |-> <<TextPart, PdfPart>>,   subject |-> {"Invoice"}, body |-> {"hello"}],
      [hdr |-> "<a@x>", labels |-> {BACKUP_LABEL, KEEP_LABEL}, date |-> 100,
       parts |-> <<TextPart, EmptyPart>>, subject |-> {"Invoice"}, body |-> {"hello"}],
      [hdr |-> None,    labels |-> {BACKUP_LABEL},             date |-> 900,
       parts |-> <<TextPart>>,            subject |-> {"Hello"},   body |-> {"rex"}] }

\* extract_attachments: the parts that carry a filename and a payload that is
\* not empty, in part order
RECURSIVE extract_attachments(_)
extract_attachments(parts) ==
    IF parts = <<>> THEN <<>>
    ELSE LET part == Head(parts)
             rest == extract_attachments(Tail(parts))
         IN IF part.filename = None THEN rest
            ELSE IF part.payload = "" THEN rest
            ELSE <<part>> \o rest

VARIABLES
    mailbox,        \* remote: gmail id -> [hdr, labelIds, date, parts, natts, subject, body]
    label_dir,      \* remote: names of the labels that exist
    trashed,        \* remote: gmail ids moved to the trash
    db,             \* the committed content of emails.db
    conn,           \* the open connection's view: db plus the pending transaction
    files,          \* the files under RAW_PATH and ATTACHMENTS_PATH: path -> bytes
    pc,             \* where the running process is ("idle": none runs)
    argv,           \* sys.argv of the running process; when none runs, that of
                    \* the search, stats or usage exit that ended last, or <<>>
    label_id,       \* backup_emails: label_id / cleanup_old_emails: keep_label_id
    dry_run,        \* cleanup_old_emails: dry_run
    cutoff,         \* cleanup_old_emails: cutoff (days)
    page_token,     \* page_token
    listing,        \* the remote's token chain: the entries matched at the first list call
    results,        \* results: [messages (those not yet processed), nextPageToken]
    current_labels, \* cleanup_old_emails: current_labels of the candidate
    counts,         \* [backed_up, skipped, deleted, kept]: the four counters
    exit_status,    \* the last process, once it ended: [cmd, status]
    hist,           \* history of the run, kept for the properties
    creds,          \* the credential material on disk (token.json, credentials.json)
    stdout,         \* what the last search or stats command printed
    ntfy,           \* the send_ntfy calls of the last process: [title, outcome]
    listener,       \* the state of a listener.py process (see ListenerOff)
    frigate         \* the state of the alerts.py process (see FrigateStart)

remote == <<mailbox, label_dir, trashed>>
store == <<db, conn, files>>
locals == <<argv, label_id, dry_run, cutoff, page_token, listing, results,
            current_labels, counts>>
\* what no step of a sync or retention run touches
aside == <<creds, listener, frigate>>
\* the state of the backup.py and cleanup.py processes and what they work on
core == <<mailbox, label_dir, trashed, db, conn, files, pc, argv, label_id,
          dry_run, cutoff, page_token, listing, results, current_labels,
          counts, exit_status, hist, creds, stdout, ntfy>>
vars == <<mailbox, label_dir, trashed, db, conn, files, pc, argv, label_id,
          dry_run, cutoff, page_token, listing, results, current_labels,
          counts, exit_status, hist, creds, stdout, ntfy, listener, frigate>>

(* ---------------------------- credentials ------------------------------ *)
\* what get_gmail_service finds on disk: a token.json that is valid, or
\* neither token.json nor credentials.json
CredStates == {"valid", "none"}

\* a client built without looking for the credential material
get_gmail_service_NoCheck(c) == "service"

\* get_gmail_service: sys.exit(1) when there is no valid token and no
\* credentials.json to ask for one
get_gmail_service(c) == IF c = "valid" THEN "service" ELSE "exit1"

(* --------------------------- notifications ----------------------------- *)
\* NTFY_TOPIC of the process environment: not set, or a topic
NtfyTopics == {"", "home"}
\* how http_requests.post ends
PostOutcomes == {"ok", "raises"}
NothingSent == [calls |-> <<>>, raised |-> FALSE]

\* a send_ntfy without its try: the exception of the post reaches the caller
send_ntfy_Raises(topic, title, post) ==
    IF topic = "" THEN NothingSent
    ELSE [calls |-> <<[title |-> title, outcome |-> IF post = "ok" THEN "posted" ELSE "failed"]>>,
          raised |-> post = "raises"]

\* send_ntfy(title, message): returns at once when NTFY_TOPIC is not set;
\* posts otherwise, and logs the exception of a post that raises.  calls: the
\* posts attempted, raised: whether an exception reaches the caller
send_ntfy(topic, title, post) ==
    IF topic = "" THEN NothingSent
    ELSE [calls |-> <<[title |-> title, outcome |-> IF post = "ok" THEN "posted" ELSE "failed"]>>,
          raised |-> FALSE]

(* ------------------------------ remote --------------------------------- *)
\* get_label_id: the id of the label with that name, None if there is none
\* a lookup that answers with an id whether or not the label exists
get_label_id_Unchecked(name) == LabelIdOf(name)

get_label_id(name) == IF name \in label_dir THEN LabelIdOf(name) ELSE None

\* ascending sequence of the members of a set of integers
RECURSIVE SortedSeq(_)
SortedSeq(S) ==
    IF S = {} THEN <<>>
    ELSE LET m == CHOOSE x \in S : \A y \in S : x <= y
         IN <<m>> \o SortedSeq(S \ {m})

\* messages().list(labelIds=[lid]): what the label query matches (trash excluded)
MatchLabel(lid) ==
    SortedSeq({g \in GmailIds : lid \in mailbox[g].labelIds /\ g \notin trashed})

\* a query without its "before:" term
MatchBefore_All(c) == SortedSeq({g \in GmailIds : g \notin trashed})

\* messages().list(q="before:<cutoff>"): dated strictly before the cutoff
MatchBefore(c) ==
    SortedSeq({g \in GmailIds : mailbox[g].date < c /\ g \notin trashed})

\* a listing that stops after its first page
ListPage_OnePage(matched, token) ==
    [messages |-> SubSeq(matched, 1, IF PageSize < Len(matched) THEN PageSize ELSE Len(matched)),
     nextPageToken |-> NoToken]

\* one page of a token chain: page k of the matched entries, and the token of
\* the next page (None after the last one)
ListPage(matched, token) ==
    LET k == IF token = NoToken THEN 1 ELSE token[1]
        lo == (k - 1) * PageSize + 1
        hi == IF k * PageSize < Len(matched) THEN k * PageSize ELSE Len(matched)
    IN [messages |-> SubSeq(matched, lo, hi),
        nextPageToken |-> IF k * PageSize < Len(matched) THEN <<k + 1>> ELSE NoToken]

(* ------------------------------ store ---------------------------------- *)
EmptyDb == [emails |-> {}, attachments |-> {}, emails_fts |-> {}, cleanup_runs |-> <<>>]

\* msg.get("Message-ID", gmail_id): the header, the gmail id when there is none
MessageIdOf(g) ==
    [hdr |-> mailbox[g].hdr, gid |-> IF mailbox[g].hdr = None THEN g ELSE 0]

\* hashlib.sha256(message_id.encode()).hexdigest()[:16]
fs_message_id(mid) == [sha256_16 |-> mid]

\* eml_path: RAW_PATH / year_month / "<fs_message_id>.eml"
EmlPath(g) ==
    [root |-> "raw", dir |-> mailbox[g].date, key |-> fs_message_id(MessageIdOf(g)), name |-> 0]

\* local_path of the k-th attachment: ATTACHMENTS_PATH / key[:2] / key / filename
\* (the k-th attachment of every message has the same file name)
AttPath(g, k) ==
    [root |-> "att", dir |-> 0, key |-> fs_message_id(MessageIdOf(g)), name |-> k]

\* write_bytes: the file at each path of P now holds bytes of message g
WriteFiles(f, P, g) ==
    [p \in DOMAIN f \cup P |-> IF p \in P THEN g ELSE f[p]]

\* the files the processing of g writes when it gets through nf writes:
\* the raw .eml first, then the attachments in part order
FilesWritten(g, nf) ==
    (IF nf >= 1 THEN {EmlPath(g)} ELSE {}) \cup {AttPath(g, k) : k \in 1..(nf - 1)}

NextRowid(rows) ==
    IF rows = {} THEN 1
    ELSE 1 + (CHOOSE m \in {r.rowid : r \in rows} : \A r \in rows : r.rowid <= m)

\* the row INSERT INTO emails writes for message g
EmailRow(c, g) ==
    [rowid |-> NextRowid(c.emails),
     message_id |-> MessageIdOf(g),
     gmail_id |-> g,
     subject |-> mailbox[g].subject,
     sender |-> {"alice"},
     recipients |-> {"bob"},
     body_text |-> mailbox[g].body,
     date_epoch |-> mailbox[g].date,
     has_attachments |-> IF mailbox[g].natts > 0 THEN 1 ELSE 0,
     attachment_count |-> mailbox[g].natts,
     raw_path |-> EmlPath(g),
     deleted_from_gmail |-> 0]

\* the unicode61 tokenizer of FTS5 folds case (the words of the model hold no
\* separator)
Lower(w) == CASE w = "Invoice" -> "invoice"
              [] w = "Hello" -> "hello"
              [] OTHER -> w
\* a tokenizer that keeps the case of the words
Tokenize_CaseSensitive(words) == words

Tokenize(words) == {Lower(w) : w \in words}

\* the entry the triggers keep in emails_fts for a row: its rowid and the
\* indexed columns (subject, sender, recipients, body_text) of its message
FtsEntry(row) ==
    [rowid |-> row.rowid,
     text |-> Tokenize(row.subject \cup row.sender \cup row.recipients \cup row.body_text)]

\* an emails table without its PRIMARY KEY
InsertEmailAllowed_NoKey(c, g) == \A r \in c.emails : r.gmail_id # g

\* PRIMARY KEY (message_id) and UNIQUE (gmail_id) of emails
InsertEmailAllowed(c, g) ==
    \A r \in c.emails : r.message_id # MessageIdOf(g) /\ r.gmail_id # g

\* INSERT INTO emails, with trigger emails_ai
InsertEmail(c, g) ==
    LET row == EmailRow(c, g)
    IN [c EXCEPT !.emails = @ \cup {row},
                 !.emails_fts = @ \cup {FtsEntry(row)}]

\* INSERT INTO attachments, for the first na attachments of g
InsertAttachments(c, g, na) ==
    [c EXCEPT !.attachments = @ \cup
        {[message_id |-> MessageIdOf(g), filename |-> k, local_path |-> AttPath(g, k)]
            : k \in 1..na}]

\* INSERT OR REPLACE of the flagged row: the row is deleted and written again
\* under a new rowid
MarkDeleted_Replace(c, g) ==
    LET hit == {r \in c.emails : r.gmail_id = g}
        new == {[r EXCEPT !.deleted_from_gmail = 1, !.rowid = NextRowid(c.emails)] : r \in hit}
    IN [c EXCEPT !.emails = (@ \ hit) \cup new,
                 !.emails_fts = (@ \ {FtsEntry(r) : r \in hit})
                                    \cup {FtsEntry(r) : r \in new}]

\* DELETE FROM emails WHERE gmail_id = g, with trigger emails_ad
MarkDeleted_Delete(c, g) ==
    LET hit == {r \in c.emails : r.gmail_id = g}
    IN [c EXCEPT !.emails = @ \ hit,
                 !.emails_fts = @ \ {FtsEntry(r) : r \in hit}]

\* UPDATE emails SET deleted_from_gmail = 1 WHERE gmail_id = g, with trigger
\* emails_au (the index entry of each updated row is deleted and written again)
MarkDeleted(c, g) ==
    LET hit == {r \in c.emails : r.gmail_id = g}
        new == {[r EXCEPT !.deleted_from_gmail = 1] : r \in hit}
    IN [c EXCEPT !.emails = (@ \ hit) \cup new,
                 !.emails_fts = (@ \ {FtsEntry(r) : r \in hit}) \cup {FtsEntry(r) : r \in new}]

\* the two counts bound to each other's column
InsertCleanupRun_Swapped(c, cut, del, kep) ==
    [c EXCEPT !.cleanup_runs = Append(@,
        [cutoff_date |-> cut, retention_days |-> RETENTION_DAYS,
         emails_deleted |-> kep, emails_kept |-> del])]

\* INSERT INTO cleanup_runs
InsertCleanupRun(c, cut, del, kep) ==
    [c EXCEPT !.cleanup_runs = Append(@,
        [cutoff_date |-> cut, retention_days |-> RETENTION_DAYS,
         emails_deleted |-> del, emails_kept |-> kep])]

\* a skip check that looks the message up by its Message-ID
HasRow_ByMessageId(c, g) == \E r \in c.emails : r.message_id = MessageIdOf(g)

\* a skip check that never finds a row
HasRow_Never(c, g) == FALSE

\* SELECT 1 FROM emails WHERE gmail_id = g
HasRow(c, g) == \E r \in c.emails : r.gmail_id = g

(* ------------------------ alerts.py: the state ------------------------- *)
\* time.time() when alerts.py starts, in seconds: more than an hour after the
\* epoch, where last_disk_alert = 0 lies
StartTime == 3600
\* the threads that call check_disk_usage
Threads == {"disk_monitor", "command_listener"}
\* no event handled yet
NoEvent == [type |-> "none", label |-> "none", camera |-> "none", id |-> ""]

\* alerts.py after its start.  clock: time.time(); last_alert: the dict, by
\* camera/label pair (the key "<camera>_<label>" names one pair only: no label
\* of ALERT_OBJECTS holds an underscore); attempts: per pair, the time of the
\* last notification attempted; handled, attempted: the last frigate event
\* and whether it was notified; last_disk_alert: the global; th: per thread,
\* where it is in send_disk_notification and its local now; sent_at: the
\* times of the last two disk alerts posted
FrigateStart ==
    [clock |-> StartTime, last_alert |-> <<>>, attempts |-> <<>>,
     handled |-> NoEvent, attempted |-> FALSE,
     last_disk_alert |-> 0,
     th |-> [t \in Threads |-> [pc |-> "idle", now |-> 0]],
     sent_at |-> <<>>]

(* ------------------------------- Init ---------------------------------- *)
ZeroCounts == [backed_up |-> 0, skipped |-> 0, deleted |-> 0, kept |-> 0]
NoResults == [messages |-> <<>>, nextPageToken |-> NoToken]
NoHist == [prev_sync |-> <<>>, failed |-> FALSE, trash_calls |-> {},
           fetched |-> <<>>, raised |-> FALSE, resumed |-> FALSE, rows0 |-> 0,
           chain |-> <<>>, lists |-> 0, done |-> <<>>]

\* history h after a list call on the token chain of the entries matched
Listed(h, matched) == [h EXCEPT !.lists = @ + 1, !.chain = matched]
\* exit_status while a process runs, and before the first one
\* nothing printed by a search or stats command
NoOutput == [cmd |-> "none", query |-> "", rows |-> <<>>, stats |-> <<>>]
NoExit == [cmd |-> "none", status |-> "none"]

\* the messages of a mailbox whose labels are those of dir: no message is
\* protected by a Keep label that does not exist, and where the Backup label
\* does not exist the messages do not carry it
MessagesOf(dir) ==
    { [hdr |-> k.hdr,
       labelIds |-> {LabelIdOf(n) : n \in k.labels \cap dir},
       date |-> k.date,
       parts |-> k.parts,
       natts |-> Len(extract_attachments(k.parts)),
       subject |-> k.subject,
       body |-> k.body] : k \in {x \in MessageKinds : KEEP_LABEL \in x.labels => KEEP_LABEL \in dir} }

\* no process runs: the locals of the last one are gone, but for the command
\* line args that is kept for the properties
IdleAfter(args) ==
    /\ pc' = "idle"
    /\ argv' = args
    /\ label_id' = None
    /\ dry_run' = FALSE
    /\ cutoff' = 0
    /\ page_token' = NoToken
    /\ listing' = <<>>
    /\ results' = NoResults
    /\ current_labels' = {}
    /\ counts' = ZeroCounts

Idle == IdleAfter(<<>>)

\* no listener runs.  lpc: where listen() is; running: _running; stream: the
\* lines of the open response not read yet; children: the scripts running as
\* subprocesses; published: the commands published so far; executed: the
\* commands for which a subprocess was started; sent: the send_ntfy calls of
\* the last step.  during: the command was published while a subprocess ran.
ListenerOff ==
    [lpc |-> "off", running |-> FALSE, stream |-> <<>>, children |-> <<>>,
     published |-> 0, executed |-> <<>>, sent |-> <<>>]

\* init_db on an empty storage directory; the mailbox is any mailbox, the
\* credential material is there or not, and no listener runs
Init ==
    /\ label_dir \in SUBSET LabelNames
    /\ mailbox \in [GmailIds -> MessagesOf(label_dir)]
    /\ trashed = {}
    /\ db = EmptyDb
    /\ conn = EmptyDb
    /\ files = << >>
    /\ pc = "idle"
    /\ argv = <<>>
    /\ label_id = None
    /\ dry_run = FALSE
    /\ cutoff = 0
    /\ page_token = NoToken
    /\ listing = <<>>
    /\ results = NoResults
    /\ current_labels = {}
    /\ counts = ZeroCounts
    /\ exit_status = NoExit
    /\ hist = NoHist
    /\ creds \in CredStates
    /\ stdout = NoOutput
    /\ ntfy = <<>>
    /\ listener = ListenerOff
    /\ frigate = FrigateStart

(* --------------------------- the sync engine --------------------------- *)
\* cleanup.py main: dry_run = "--dry-run" in sys.argv.  backup.py main calls
\* its own cleanup_old_emails(service, conn), which has no dry_run parameter.
DryRunOf(script, flag) == script = "cleanup.py" /\ flag

\* the places of backup_emails and of cleanup_old_emails
SyncPcs == {"sync_list", "sync_page", "sync_done"}
RetPcs == {"ret_list", "ret_page", "ret_decide", "ret_log"}

\* what a retention process is, for exit_status
CleanupCmd(dry) == IF dry THEN "cleanup --dry-run" ELSE "cleanup"

\* the process ends on an uncaught exception, sys.exit or a kill: the
\* connection goes without a commit, and SQLite drops the pending transaction
\* (Die: the step that ends it writes no file)
Exit(cmd, status) ==
    /\ Idle
    /\ conn' = db
    /\ exit_status' = [cmd |-> cmd, status |-> status]
    /\ hist' = NoHist
    /\ stdout' = NoOutput
    /\ ntfy' = <<>>
    /\ UNCHANGED <<remote, db, aside>>

Die(cmd, status) ==
    /\ Exit(cmd, status)
    /\ UNCHANGED files

\* "break": the loop is left for the code after it.  The loop's variables are
\* not read again and are cleared here.
LoopExit(after) ==
    /\ pc' = after
    /\ page_token' = NoToken
    /\ listing' = <<>>
    /\ results' = NoResults

\* backup.py backup: main, and backup_emails up to its loop
StartBackup ==
    /\ pc = "idle"
    /\ \/ \* no credential material: sys.exit(1) in get_gmail_service
          /\ get_gmail_service(creds) = "exit1"
          /\ Die("backup", "exit1")
       \/ \* labels().list raises
          /\ get_gmail_service(creds) = "service"
          /\ Die("backup", "exception")
       \/ \* the label does not exist: sys.exit(1)
          /\ get_gmail_service(creds) = "service"
          /\ get_label_id(BACKUP_LABEL) = None
          /\ Die("backup", "exit1")
       \/ /\ get_gmail_service(creds) = "service"
          /\ get_label_id(BACKUP_LABEL) # None
          /\ pc' = "sync_list"
          /\ argv' = <<"backup.py", "backup">>
          /\ label_id' = get_label_id(BACKUP_LABEL)
          /\ page_token' = NoToken
          /\ counts' = ZeroCounts
          /\ exit_status' = NoExit
          /\ hist' = [hist EXCEPT !.failed = FALSE, !.trash_calls = {},
                  !.resumed = (exit_status = [cmd |-> "backup", status |-> "killed"]),
                  !.rows0 = Cardinality(db.emails)]
          /\ stdout' = NoOutput
          /\ ntfy' = <<>>
          /\ UNCHANGED <<aside, remote, store, dry_run, cutoff, listing, results,
                         current_labels>>

\* a list call whose failure is taken for the end of the pagination
SyncList_FailureEndsLoop ==
    /\ pc = "sync_list"
    /\ LET matched == IF page_token = NoToken THEN MatchLabel(label_id) ELSE listing
           res == ListPage(matched, page_token)
       IN \/ LoopExit("sync_done")
          \/ /\ res.messages # <<>>
             /\ listing' = matched
             /\ results' = res
             /\ pc' = "sync_page"
             /\ UNCHANGED page_token
    /\ hist' = Listed(hist, IF page_token = NoToken THEN MatchLabel(label_id) ELSE listing)
    /\ UNCHANGED <<aside, stdout, ntfy, remote, store, argv, label_id, dry_run, cutoff,
                   current_labels, counts, exit_status>>

\* backup_emails: messages().list at the head of the while loop
SyncList ==
    /\ pc = "sync_list"
    /\ \/ \* the list call raises; nothing in backup_emails catches it
          Die("backup", "exception")
       \/ LET matched == IF page_token = NoToken THEN MatchLabel(label_id) ELSE listing
              res == ListPage(matched, page_token)
          IN /\ IF res.messages = <<>>
                THEN LoopExit("sync_done")
                ELSE /\ listing' = matched
                     /\ results' = res
                     /\ pc' = "sync_page"
                     /\ UNCHANGED page_token
             /\ hist' = Listed(hist, matched)
             /\ UNCHANGED <<aside, stdout, ntfy, remote, store, argv, label_id, dry_run, cutoff,
                            current_labels, counts, exit_status>>

\* The list call answered with a page that holds no messages and still carries
\* a continuation token, while messages remain further down the chain (the
\* list API promises a token when more results exist, not that a page holding
\* a token holds messages).  "if not messages: break" leaves the loop for the
\* summary without looking at the token.
SyncListEmptyPage ==
    /\ pc = "sync_list"
    /\ LET matched == IF page_token = NoToken THEN MatchLabel(label_id) ELSE listing
       IN ListPage(matched, page_token).messages # <<>>
    /\ LoopExit("sync_done")
    /\ hist' = Listed(hist, IF page_token = NoToken THEN MatchLabel(label_id) ELSE listing)
    /\ UNCHANGED <<aside, stdout, ntfy, remote, store, argv, label_id, dry_run, cutoff,
                   current_labels, counts, exit_status>>

\* a handler that counts the failed entry as one that already existed
ProcessMessage_CountsFailed(g, nf, nr) ==
    LET n == mailbox[g].natts
        c1 == IF nr >= 1 THEN InsertEmail(conn, g) ELSE conn
        c2 == IF nr >= 2 THEN InsertAttachments(c1, g, nr - 1) ELSE c1
        ok == nr = n + 1
    IN /\ nf \in 0..(n + 1)
       /\ nr \in 0..(n + 1)
       /\ nr >= 1 => nf = n + 1 /\ InsertEmailAllowed(conn, g)
       /\ files' = WriteFiles(files, FilesWritten(g, nf), g)
       /\ conn' = c2
       /\ db' = IF ok THEN c2 ELSE db
       /\ counts' = IF ok THEN [counts EXCEPT !.backed_up = @ + 1]
                    ELSE [counts EXCEPT !.skipped = @ + 1]
       /\ hist' = [hist EXCEPT !.failed = @ \/ ~ok, !.fetched = <<g>>, !.raised = ~ok,
                               !.done = Append(@, g)]

\* the body of "for msg_summary in messages" for one entry.  nf files are
\* written and nr rows inserted before an exception ends the entry; the entry
\* succeeds when every file is written and every row inserted, and is then
\* committed.  The except clause logs and continues: it does not roll back.
ProcessMessage(g, nf, nr) ==
    LET n == mailbox[g].natts
        c1 == IF nr >= 1 THEN InsertEmail(conn, g) ELSE conn
        c2 == IF nr >= 2 THEN InsertAttachments(c1, g, nr - 1) ELSE c1
        ok == nr = n + 1
    IN /\ nf \in 0..(n + 1)
       /\ nr \in 0..(n + 1)
       /\ nr >= 1 => nf = n + 1 /\ InsertEmailAllowed(conn, g)
       /\ files' = WriteFiles(files, FilesWritten(g, nf), g)
       /\ conn' = c2
       /\ db' = IF ok THEN c2 ELSE db
       /\ counts' = IF ok THEN [counts EXCEPT !.backed_up = @ + 1] ELSE counts
       /\ hist' = [hist EXCEPT !.failed = @ \/ ~ok, !.fetched = <<g>>, !.raised = ~ok,
                               !.done = Append(@, g)]

SyncMessage ==
    /\ pc = "sync_page"
    /\ results.messages # <<>>
    /\ LET gmail_id == Head(results.messages)
       IN IF HasRow(conn, gmail_id)
          THEN /\ counts' = [counts EXCEPT !.skipped = @ + 1]
               /\ hist' = [hist EXCEPT !.fetched = <<>>, !.raised = FALSE,
                                       !.done = Append(@, gmail_id)]
               /\ UNCHANGED store
          ELSE \E nf \in 0..(mailbox[gmail_id].natts + 1),
                  nr \in 0..(mailbox[gmail_id].natts + 1) :
                  ProcessMessage(gmail_id, nf, nr)
    /\ results' = [results EXCEPT !.messages = Tail(@)]
    /\ UNCHANGED <<aside, stdout, ntfy, remote, pc, argv, label_id, dry_run, cutoff, page_token, listing,
                   current_labels, exit_status>>

\* the loop of backup_emails without its "if not page_token: break": a missing
\* token goes to the next list call, which serves the first page again
SyncPageEnd_NoBreak ==
    /\ pc = "sync_page"
    /\ results.messages = <<>>
    /\ page_token' = results.nextPageToken
    /\ pc' = "sync_list"
    /\ UNCHANGED <<listing, results>>
    /\ hist' = [hist EXCEPT !.fetched = <<>>, !.raised = FALSE]
    /\ UNCHANGED <<aside, stdout, ntfy, remote, store, argv, label_id, dry_run, cutoff,
                   current_labels, counts, exit_status>>

\* after the for loop: page_token = results.get("nextPageToken"); break if none
SyncPageEnd ==
    /\ pc = "sync_page"
    /\ results.messages = <<>>
    /\ IF results.nextPageToken = NoToken
       THEN LoopExit("sync_done")
       ELSE /\ page_token' = results.nextPageToken
            /\ pc' = "sync_list"
            /\ UNCHANGED <<listing, results>>
    /\ hist' = [hist EXCEPT !.fetched = <<>>, !.raised = FALSE]
    /\ UNCHANGED <<aside, stdout, ntfy, remote, store, argv, label_id, dry_run, cutoff,
                   current_labels, counts, exit_status>>

\* "Backup complete: %d new, %d already existed", then main: print_stats and
\* conn.close()
SyncExit ==
    /\ pc = "sync_done"
    /\ Idle
    /\ conn' = db
    /\ exit_status' = [cmd |-> "backup", status |-> "ok"]
    /\ hist' = [hist EXCEPT !.prev_sync = IF hist.failed THEN <<>>
                                           ELSE <<[new |-> counts.backed_up,
                                                   skipped |-> counts.skipped]>>,
                            !.failed = FALSE, !.resumed = FALSE, !.rows0 = 0,
                            !.chain = <<>>, !.lists = 0, !.done = <<>>]
    /\ UNCHANGED <<remote, db, files, aside, stdout, ntfy>>

\* the process is killed, or the machine stops: between two steps, or in the
\* middle of processing a message, after some of its files were written
Crash ==
    /\ pc # "idle"
    /\ \/ Die(IF pc \in SyncPcs THEN "backup" ELSE CleanupCmd(dry_run), "killed")
       \/ /\ pc = "sync_page"
          /\ results.messages # <<>>
          /\ ~HasRow(conn, Head(results.messages))
          /\ \E nf \in 1..(mailbox[Head(results.messages)].natts + 1) :
                files' = WriteFiles(files, FilesWritten(Head(results.messages), nf),
                                    Head(results.messages))
          /\ Exit("backup", "killed")

(* ------------------------- the retention engine ------------------------ *)
\* cleanup.py [--dry-run] and backup.py cleanup [--dry-run]: main, and
\* cleanup_old_emails up to its loop.  Only cleanup.py reads --dry-run; the
\* cleanup_old_emails of backup.py has no dry_run parameter.
StartCleanup(script, flag) ==
    /\ pc = "idle"
    /\ \/ \* no credential material: sys.exit(1) in get_gmail_service
          /\ get_gmail_service(creds) = "exit1"
          /\ Die(CleanupCmd(DryRunOf(script, flag)), "exit1")
       \/ \* labels().list raises
          /\ get_gmail_service(creds) = "service"
          /\ Die(CleanupCmd(DryRunOf(script, flag)), "exception")
       \/ \E now \in Nows :
          /\ get_gmail_service(creds) = "service"
          /\ DryRunOf(script, flag) \/ Len(db.cleanup_runs) < MaxRuns
          /\ pc' = "ret_list"
          /\ argv' = IF script = "backup.py"
                   THEN IF flag THEN <<script, "cleanup", "--dry-run">> ELSE <<script, "cleanup">>
                   ELSE IF flag THEN <<script, "--dry-run">> ELSE <<script>>
          /\ label_id' = get_label_id(KEEP_LABEL)
          /\ dry_run' = DryRunOf(script, flag)
          /\ cutoff' = now - RETENTION_DAYS
          /\ page_token' = NoToken
          /\ counts' = ZeroCounts
          /\ hist' = NoHist
          /\ exit_status' = NoExit
          /\ stdout' = NoOutput
          /\ ntfy' = <<>>
          /\ UNCHANGED <<aside, remote, store, listing, results, current_labels>>

\* cleanup_old_emails: messages().list at the head of the while loop; the
\* outer except logs and breaks.  (main read sys.argv before the pass and
\* nothing reads it again: it is cleared here.)
RetList ==
    /\ pc = "ret_list"
    /\ LET matched == IF page_token = NoToken THEN MatchBefore(cutoff) ELSE listing
           res == ListPage(matched, page_token)
       IN \/ \* the list call raises
             /\ LoopExit("ret_log")
             /\ hist' = [Listed(hist, matched) EXCEPT !.failed = TRUE]
          \/ /\ IF res.messages = <<>>
                THEN LoopExit("ret_log")
                ELSE /\ listing' = matched
                     /\ results' = res
                     /\ pc' = "ret_page"
                     /\ UNCHANGED page_token
             /\ hist' = Listed(hist, matched)
    /\ argv' = <<>>
    /\ UNCHANGED <<aside, stdout, ntfy, remote, store, label_id, dry_run, cutoff,
                   current_labels, counts, exit_status>>

\* a handler around the fetch alone: after a failed fetch the candidate is
\* decided on an empty label set
RetGet_FallsThrough ==
    /\ pc = "ret_page"
    /\ results.messages # <<>>
    /\ \/ /\ current_labels' = {}
          /\ hist' = [hist EXCEPT !.failed = TRUE, !.raised = TRUE,
                                  !.done = Append(@, Head(results.messages))]
       \/ /\ current_labels' = mailbox[Head(results.messages)].labelIds
          /\ hist' = [hist EXCEPT !.raised = FALSE,
                                  !.done = Append(@, Head(results.messages))]
    /\ pc' = "ret_decide"
    /\ UNCHANGED <<aside, stdout, ntfy, remote, store, argv, label_id, dry_run, cutoff, page_token, listing,
                   results, counts, exit_status>>

\* messages().get(format="metadata") for the next candidate; the inner except
\* logs and continues
RetGet ==
    /\ pc = "ret_page"
    /\ results.messages # <<>>
    /\ \/ /\ results' = [results EXCEPT !.messages = Tail(@)]
          /\ hist' = [hist EXCEPT !.failed = TRUE, !.raised = TRUE,
                                  !.done = Append(@, Head(results.messages))]
          /\ UNCHANGED <<pc, current_labels>>
       \/ /\ current_labels' = mailbox[Head(results.messages)].labelIds
          /\ pc' = "ret_decide"
          /\ hist' = [hist EXCEPT !.raised = FALSE,
                                  !.done = Append(@, Head(results.messages))]
          /\ UNCHANGED results
    /\ UNCHANGED <<aside, stdout, ntfy, remote, store, argv, label_id, dry_run, cutoff, page_token, listing,
                   counts, exit_status>>

\* a keep check that keeps every candidate when the label does not exist
IsKept_AllWhenMissing(keep_label_id, labels) ==
    keep_label_id = None \/ keep_label_id \in labels

\* a keep check that compares the label set with the label
IsKept_Exact(keep_label_id, labels) == keep_label_id # None /\ labels = {keep_label_id}

\* a keep check that also keeps what the store has no row for
IsKept_OrUnarchived(keep_label_id, labels) ==
    \/ keep_label_id # None /\ keep_label_id \in labels
    \/ \A r \in conn.emails : r.gmail_id # Head(results.messages)

\* the candidate carries the Keep label: "keep_label_id and keep_label_id in
\* current_labels"
IsKept(keep_label_id, labels) == keep_label_id # None /\ keep_label_id \in labels

\* a loop body that tests dry_run before the keep label: a dry run counts
\* every candidate as deleted
RetDecide_DryRunFirst ==
    /\ pc = "ret_decide"
    /\ LET gmail_id == Head(results.messages)
       IN IF dry_run
          THEN /\ counts' = [counts EXCEPT !.deleted = @ + 1]
               /\ UNCHANGED <<trashed, db, conn, hist>>
          ELSE IF IsKept(label_id, current_labels)
          THEN /\ counts' = [counts EXCEPT !.kept = @ + 1]
               /\ UNCHANGED <<trashed, db, conn, hist>>
          ELSE /\ trashed' = trashed \cup {gmail_id}
               /\ conn' = MarkDeleted(conn, gmail_id)
               /\ db' = MarkDeleted(conn, gmail_id)
               /\ counts' = [counts EXCEPT !.deleted = @ + 1]
               /\ hist' = [hist EXCEPT !.trash_calls = @ \cup {gmail_id}]
    /\ results' = [results EXCEPT !.messages = Tail(@)]
    /\ current_labels' = {}
    /\ pc' = "ret_page"
    /\ UNCHANGED <<aside, stdout, ntfy, mailbox, label_dir, files, argv, label_id, dry_run, cutoff, page_token,
                   listing, exit_status>>

\* the rest of the loop body: keep, or count (dry run), or trash, flag, commit
\* and count
RetDecide ==
    /\ pc = "ret_decide"
    /\ LET gmail_id == Head(results.messages)
       IN IF IsKept(label_id, current_labels)
          THEN /\ counts' = [counts EXCEPT !.kept = @ + 1]
               /\ UNCHANGED <<trashed, db, conn, hist>>
          ELSE IF dry_run
          THEN /\ counts' = [counts EXCEPT !.deleted = @ + 1]
               /\ UNCHANGED <<trashed, db, conn, hist>>
          ELSE \/ \* messages().trash raises
                  /\ hist' = [hist EXCEPT !.failed = TRUE, !.raised = TRUE,
                                          !.trash_calls = @ \cup {gmail_id}]
                  /\ UNCHANGED <<trashed, db, conn, counts>>
               \/ \* trashed, then the UPDATE raises
                  /\ trashed' = trashed \cup {gmail_id}
                  /\ hist' = [hist EXCEPT !.failed = TRUE, !.raised = TRUE,
                                          !.trash_calls = @ \cup {gmail_id}]
                  /\ UNCHANGED <<db, conn, counts>>
               \/ /\ trashed' = trashed \cup {gmail_id}
                  /\ conn' = MarkDeleted(conn, gmail_id)
                  /\ db' = MarkDeleted(conn, gmail_id)
                  /\ counts' = [counts EXCEPT !.deleted = @ + 1]
                  /\ hist' = [hist EXCEPT !.trash_calls = @ \cup {gmail_id}]
    /\ results' = [results EXCEPT !.messages = Tail(@)]
    /\ current_labels' = {}
    /\ pc' = "ret_page"
    /\ UNCHANGED <<aside, stdout, ntfy, mailbox, label_dir, files, argv, label_id, dry_run, cutoff, page_token,
                   listing, exit_status>>

\* another user of the mailbox puts the Keep label on the candidate between
\* the messages().get of the pass and its messages().trash.  (A label added
\* before the get is a mailbox Init already holds.)
KeepAdded ==
    /\ pc = "ret_decide"
    /\ KEEP_LABEL \in label_dir
    /\ LabelIdOf(KEEP_LABEL) \notin mailbox[Head(results.messages)].labelIds
    /\ mailbox' = [mailbox EXCEPT ![Head(results.messages)].labelIds =
                                      @ \cup {LabelIdOf(KEEP_LABEL)}]
    /\ UNCHANGED <<label_dir, trashed, store, pc, locals, exit_status, hist, aside,
                   stdout, ntfy>>

\* after the for loop: page_token = results.get("nextPageToken"); break if none
RetPageEnd ==
    /\ pc = "ret_page"
    /\ results.messages = <<>>
    /\ IF results.nextPageToken = NoToken
       THEN LoopExit("ret_log")
       ELSE /\ page_token' = results.nextPageToken
            /\ pc' = "ret_list"
            /\ UNCHANGED <<listing, results>>
    /\ hist' = [hist EXCEPT !.raised = FALSE]
    /\ UNCHANGED <<aside, stdout, ntfy, remote, store, argv, label_id, dry_run, cutoff,
                   current_labels, counts, exit_status>>

\* a log written whatever dry_run is
RecordsRun_Always(dry) == TRUE

\* "if not dry_run:" before the INSERT INTO cleanup_runs
RecordsRun(dry) == ~dry

\* after the loop: "Log this cleanup run" (INSERT INTO cleanup_runs and commit,
\* unless dry_run), "Cleanup complete", send_ntfy unless dry_run, then main:
\* print_stats and conn.close().  (The cleanup of backup.py sends nothing:
\* that pass is the one with no topic.)
\* what the end of a pass comes to when the INSERT succeeds, with NTFY_TOPIC
\* = topic and a post that ends as given: the committed store, the send_ntfy
\* calls and the exit status.  (The cleanup_old_emails of backup.py calls no
\* send_ntfy; it ends as cleanup.py does without a topic.)
RetLogOutcome(topic, post) ==
    LET sent == IF dry_run THEN NothingSent
                ELSE send_ntfy(topic, "Email Cleanup Complete", post)
    IN [db |-> IF RecordsRun(dry_run)
               THEN InsertCleanupRun(conn, cutoff, counts.deleted, counts.kept)
               ELSE db,
        ntfy |-> sent.calls,
        exit_status |-> [cmd |-> CleanupCmd(dry_run),
                         status |-> IF sent.raised THEN "exception" ELSE "ok"]]

RetLog ==
    /\ pc = "ret_log"
    /\ \/ \* the INSERT raises; nothing catches it
          /\ RecordsRun(dry_run)
          /\ Die(CleanupCmd(dry_run), "exception")
       \/ \E o \in {RetLogOutcome(topic, post) : topic \in NtfyTopics, post \in PostOutcomes} :
             /\ Idle
             /\ db' = o.db
             /\ conn' = db'
             /\ ntfy' = o.ntfy
             /\ exit_status' = o.exit_status
             /\ hist' = NoHist
             /\ UNCHANGED <<remote, files, aside, stdout>>

(* ----------------------- search, stats and usage ---------------------- *)
\* the queries of the model: one word each
Queries == {"Hello", "invoice"}

\* emails_fts MATCH query, joined to emails on rowid: the rows whose index
\* entry holds every token of the query
Matches(c, query) ==
    {r \in c.emails :
        \E e \in c.emails_fts : e.rowid = r.rowid /\ Tokenize({query}) \subseteq e.text}

\* the query without its LIMIT: every match, in non-increasing date order
search_emails_Unlimited(c, query) ==
    LET m == Matches(c, query)
        n == Cardinality(m)
    IN {s \in [1..n -> m] :
          \A i, j \in 1..n : i < j => (s[i] # s[j] /\ s[i].date_epoch >= s[j].date_epoch)}

\* search_emails: what fetchall may return.  ORDER BY e.date_epoch DESC LIMIT:
\* the matches in non-increasing date order, cut after SearchLimit rows; the
\* order among rows of one date is SQLite's choice
search_emails(c, query) ==
    LET m == Matches(c, query)
        n == IF Cardinality(m) < SearchLimit THEN Cardinality(m) ELSE SearchLimit
    IN {s \in [1..n -> m] :
          /\ \A i, j \in 1..n : i < j => (s[i] # s[j] /\ s[i].date_epoch >= s[j].date_epoch)
          /\ \A r \in m : (\A i \in 1..n : s[i] # r) =>
                               \A i \in 1..n : s[i].date_epoch >= r.date_epoch}

\* print_stats: the aggregates over emails and the cleanup runs shown
print_stats(c) ==
    <<Cardinality(c.emails),
      Cardinality({r \in c.emails : r.deleted_from_gmail = 1}),
      Cardinality({r \in c.emails : r.has_attachments = 1}),
      Len(c.cleanup_runs)>>

\* a CLI process of backup.py that talks to no remote ends: its rows printed
EndCli(args, status, out) ==
    /\ IdleAfter(args)
    /\ exit_status' = [cmd |-> IF Len(args) < 2 THEN "" ELSE args[2], status |-> status]
    /\ stdout' = out
    /\ ntfy' = <<>>
    /\ hist' = NoHist
    /\ UNCHANGED <<remote, store, aside>>

\* backup.py search <query>
Search(query) ==
    /\ pc = "idle"
    /\ \E s \in search_emails(conn, query) :
          EndCli(<<"backup.py", "search", query>>, "ok",
                 [cmd |-> "search", query |-> query,
                  rows |-> [i \in DOMAIN s |-> s[i].rowid], stats |-> <<>>])

\* backup.py stats
Stats ==
    /\ pc = "idle"
    /\ EndCli(<<"backup.py", "stats">>, "ok",
              [cmd |-> "stats", query |-> "", rows |-> <<>>, stats |-> print_stats(conn)])

\* the command lines main answers with its usage text and sys.exit(1): no
\* command, a command it does not know, search without a query
BadArgs == {<<"backup.py">>, <<"backup.py", "restore">>, <<"backup.py", "search">>}

\* backup.py with one of these command lines
Usage(args) ==
    /\ pc = "idle"
    /\ EndCli(args, "exit1", NoOutput)

(* ---------------------------- the listener ----------------------------- *)
\* COMMANDS: the texts the listener acts on and the script of each
COMMANDS ==
    [text \in {"backup emails", "cleanup emails"} |->
        IF text = "backup emails" THEN [script |-> "backup.py", title |-> "Email Backup"]
                                  ELSE [script |-> "cleanup.py", title |-> "Email Cleanup"]]

\* the texts published to the commands topic: the commands and another word
Texts == {"backup emails", "cleanup emails", "status"}

\* how subprocess.run ends once the child runs: exit code 0, another exit
\* code, TimeoutExpired (the child is killed and waited for)
ChildOutcomes == {"0", "nonzero", "timeout"}

\* an exception leaves the for loop of listen(): "except Exception" logs it,
\* the response is dropped and the loop sleeps before it connects again
Reconnect(l) == [l EXCEPT !.lpc = "connect", !.stream = <<>>]

\* a run_command that starts the child and returns without waiting for it
run_command_Async(l, cmd, topic, post, spawns) ==
    [l EXCEPT !.children = Append(@, COMMANDS[cmd.text].script),
              !.executed = Append(@, [script |-> COMMANDS[cmd.text].script,
                                      during |-> cmd.during]),
              !.sent = send_ntfy(topic, "Starting", post).calls]

\* run_command up to the point where subprocess.run waits for the child (or
\* up to its return when no child runs): the listener after it.  spawns:
\* whether subprocess.run gets the child started.  The message of each
\* notification stands for its title.
run_command(l, cmd, topic, post, spawns) ==
    IF l.running
    THEN LET s == send_ntfy(topic, "Ignored", post)
         IN IF s.raised THEN [Reconnect(l) EXCEPT !.sent = s.calls]
            ELSE [l EXCEPT !.sent = s.calls]
    ELSE LET s == send_ntfy(topic, "Starting", post)
             f == send_ntfy(topic, "Failed", post)
         IN IF s.raised
            THEN [Reconnect(l) EXCEPT !.running = TRUE, !.sent = s.calls]
            ELSE IF spawns
            THEN [l EXCEPT !.running = TRUE,
                           !.lpc = "run",
                           !.children = Append(@, COMMANDS[cmd.text].script),
                           !.executed = Append(@, [script |-> COMMANDS[cmd.text].script,
                                                   during |-> cmd.during]),
                           !.sent = s.calls]
            ELSE IF f.raised
            THEN [Reconnect(l) EXCEPT !.running = FALSE, !.sent = s.calls \o f.calls]
            ELSE [l EXCEPT !.running = FALSE, !.sent = s.calls \o f.calls]

\* a run_command whose flag is reset on the normal path only: TimeoutExpired
\* leaves it set
run_command_end_NoFinally(l, outcome, topic, post) ==
    [l EXCEPT !.running = (outcome = "timeout"),
              !.lpc = "read",
              !.children = Tail(@),
              !.sent = IF outcome = "0" THEN <<>> ELSE send_ntfy(topic, "Failed", post).calls]

\* run_command from the return of subprocess.run: the returncode test, the
\* except clauses and the finally
run_command_end(l, outcome, topic, post) ==
    LET f == IF outcome = "0" THEN NothingSent ELSE send_ntfy(topic, "Failed", post)
        done == [l EXCEPT !.running = FALSE,
                          !.lpc = "read",
                          !.children = Tail(@),
                          !.sent = f.calls]
    IN IF f.raised THEN Reconnect(done) ELSE done

\* the for loop of listen() on one line of the response
handle_line(l, topic, post, spawns) ==
    LET cmd == Head(l.stream)
        rest == [l EXCEPT !.stream = Tail(@), !.sent = <<>>]
    IN IF cmd.text \in DOMAIN COMMANDS
       THEN run_command(rest, cmd, topic, post, spawns)
       ELSE rest

\* python listener.py
ListenerStart ==
    /\ listener.lpc = "off"
    /\ listener' = [listener EXCEPT !.lpc = "connect"]
    /\ UNCHANGED <<core, frigate>>

\* listen(): the GET of the commands topic; an exception is logged and the
\* loop sleeps and tries again
Connect ==
    /\ listener.lpc = "connect"
    /\ \/ listener' = [listener EXCEPT !.lpc = "read", !.stream = <<>>, !.sent = <<>>]
       \/ listener' = [listener EXCEPT !.sent = <<>>]
    /\ UNCHANGED <<core, frigate>>

\* somebody publishes text to the commands topic: the open response of the
\* listener, if it has one, gets the line (a listener that is not subscribed
\* never sees it: the GET asks for no past message)
Publish(text) ==
    /\ listener.lpc \in {"connect", "read", "run"}
    /\ listener.published < MaxCmds
    /\ listener' = [listener EXCEPT
          !.published = @ + 1,
          !.stream = IF listener.lpc = "connect" THEN @
                     ELSE Append(@, [text |-> text, during |-> listener.children # <<>>])]
    /\ UNCHANGED <<core, frigate>>

\* iter_lines yields the next line
ReadLine ==
    /\ listener.lpc = "read"
    /\ listener.stream # <<>>
    /\ \E topic \in NtfyTopics, post \in PostOutcomes, spawns \in BOOLEAN :
          listener' = handle_line(listener, topic, post, spawns)
    /\ UNCHANGED <<core, frigate>>

\* iter_lines raises (read timeout, connection lost) or the response ends
StreamEnds ==
    /\ listener.lpc = "read"
    /\ listener' = [Reconnect(listener) EXCEPT !.sent = <<>>]
    /\ UNCHANGED <<core, frigate>>

\* subprocess.run returns or raises TimeoutExpired
ChildEnds(outcome) ==
    /\ listener.children # <<>>
    /\ \E topic \in NtfyTopics, post \in PostOutcomes :
          listener' = run_command_end(listener, outcome, topic, post)
    /\ UNCHANGED <<core, frigate>>

NextListener ==
    \/ ListenerStart
    \/ Connect
    \/ \E text \in Texts : Publish(text)
    \/ ReadLine
    \/ StreamEnds
    \/ \E outcome \in ChildOutcomes : ChildEnds(outcome)

(* ------------------------------ alerts.py ------------------------------ *)
\* the clock of alerts.py moves on by d seconds
Tick(d) ==
    /\ frigate.clock + d <= StartTime + MaxTicks * d
    /\ frigate' = [frigate EXCEPT !.clock = @ + d, !.handled = NoEvent, !.attempted = FALSE]
    /\ UNCHANGED <<core, listener>>

\* the events frigate publishes on frigate/events
Events ==
    [type : {"new", "update"}, label : {"person", "dog", "bird"},
     camera : {"front"}, id : {"e1", ""}]

\* f with key k of dictionary d (last_alert or attempts) set to time t
SetTime(d, k, t) == [x \in DOMAIN d \cup {k} |-> IF x = k THEN t ELSE d[x]]

\* a send_notification that restarts the cooldown for an event it drops
send_notification_Extends(f, camera, label) ==
    LET key == [camera |-> camera, label |-> label]
        cooldown == IF label \in PET_OBJECTS THEN PET_COOLDOWN_SECONDS ELSE COOLDOWN_SECONDS
    IN IF key \in DOMAIN f.last_alert /\ f.clock - f.last_alert[key] < cooldown
       THEN [f EXCEPT !.attempted = FALSE, !.last_alert = SetTime(@, key, f.clock)]
       ELSE [f EXCEPT !.last_alert = SetTime(@, key, f.clock),
                      !.attempts = SetTime(@, key, f.clock),
                      !.attempted = TRUE]

\* send_notification: returns during the cooldown of the pair; otherwise
\* records the time and attempts the notification (whether the snapshot is
\* fetched and the post succeeds changes nothing in the state)
send_notification(f, camera, label) ==
    LET key == [camera |-> camera, label |-> label]
        cooldown == IF label \in PET_OBJECTS THEN PET_COOLDOWN_SECONDS ELSE COOLDOWN_SECONDS
    IN IF key \in DOMAIN f.last_alert /\ f.clock - f.last_alert[key] < cooldown
       THEN [f EXCEPT !.attempted = FALSE]
       ELSE [f EXCEPT !.last_alert = SetTime(@, key, f.clock),
                      !.attempts = SetTime(@, key, f.clock),
                      !.attempted = TRUE]

\* on_message for one event of frigate/events
on_message(f, ev) ==
    IF ev.type = "new" /\ ev.label \in ALERT_OBJECTS /\ ev.id # ""
    THEN send_notification([f EXCEPT !.handled = ev], ev.camera, ev.label)
    ELSE [f EXCEPT !.handled = ev, !.attempted = FALSE]

\* the MQTT loop delivers an event
OnMessage(ev) ==
    /\ frigate' = on_message(frigate, ev)
    /\ UNCHANGED <<core, listener>>

\* how "docker exec frigate df -h /tmp/cache" ends: its return code and the
\* Use% it prints
Usages ==
    {[returncode |-> 1, percent |-> 0], [returncode |-> 0, percent |-> 50],
     [returncode |-> 0, percent |-> 90]}

\* check_disk_usage in thread t, up to the cooldown test of
\* send_disk_notification: now = time.time(), and the return when the last
\* alert is less than an hour old
CheckDisk(t, usage) ==
    /\ frigate.th[t].pc = "idle"
    /\ usage.returncode = 0
    /\ usage.percent >= DISK_WARNING_THRESHOLD
    /\ ~(frigate.clock - frigate.last_disk_alert < DISK_ALERT_COOLDOWN)
    /\ frigate' = [frigate EXCEPT !.th[t] = [pc |-> "alerting", now |-> frigate.clock]]
    /\ UNCHANGED <<core, listener>>

\* send_disk_notification in thread t after the test: last_disk_alert = now
\* and the post
SendDisk(t) ==
    /\ frigate.th[t].pc = "alerting"
    /\ frigate' = [frigate EXCEPT
          !.last_disk_alert = frigate.th[t].now,
          !.th[t] = [pc |-> "idle", now |-> 0],
          !.sent_at = IF @ = <<>> THEN <<frigate.clock>>
                      ELSE <<@[Len(@)], frigate.clock>>]
    /\ UNCHANGED <<core, listener>>

\* the detection alerts of alerts.py
NextEvents ==
    \/ Tick(30)
    \/ \E ev \in Events : OnMessage(ev)

\* alerts.py has no part in the mail programs: it is run beside one mailbox
InitFrigate ==
    /\ Init
    /\ label_dir = {}
    /\ creds = "none"
    /\ \A g \in GmailIds : mailbox[g].hdr = None

SpecEvents == InitFrigate /\ [][NextEvents]_vars

\* the disk alerts of alerts.py: the monitor thread and the command listener
NextDisk ==
    \/ Tick(DISK_CHECK_INTERVAL)
    \/ \E t \in Threads, usage \in Usages : CheckDisk(t, usage)
    \/ \E t \in Threads : SendDisk(t)

SpecDisk == InitFrigate /\ [][NextDisk]_vars

(* ------------------------------- Next ---------------------------------- *)
Next ==
    \/ StartBackup
    \/ SyncList
    \/ SyncMessage
    \/ SyncPageEnd
    \/ SyncExit
    \/ \E script \in {"backup.py", "cleanup.py"}, flag \in BOOLEAN : StartCleanup(script, flag)
    \/ RetList
    \/ RetGet
    \/ RetDecide
    \/ RetPageEnd
    \/ RetLog
    \/ Crash

Spec == Init /\ [][Next]_vars

\* every command of backup.py and cleanup.py
NextCli ==
    \/ Next
    \/ \E query \in Queries : Search(query)
    \/ Stats
    \/ \E args \in BadArgs : Usage(args)

\* The commands are run on a mailbox without Keep label: the label plays no
\* part in what search, stats and the usage exits do.
InitCli == Init /\ KEEP_LABEL \notin label_dir

SpecCli == InitCli /\ [][NextCli]_vars

\* A listener on its own: no backup.py or cleanup.py is run by hand, and the
\* scripts the listener starts are taken for their exit only.
SpecListener == Init /\ [][NextListener]_vars

\* Either the commands are run by hand and no listener runs, or a listener
\* runs from the start and nothing is run by hand: a retention pass and a
\* listener both call send_ntfy.
NextNotify ==
    \/ listener = ListenerOff /\ StartBackup
    \/ listener = ListenerOff /\ \E script \in {"backup.py", "cleanup.py"}, flag \in BOOLEAN :
                                    StartCleanup(script, flag)
    \/ SyncList
    \/ SyncMessage
    \/ SyncPageEnd
    \/ SyncExit
    \/ RetList
    \/ RetGet
    \/ RetDecide
    \/ RetPageEnd
    \/ RetLog
    \/ Crash
    \/ pc = "idle" /\ exit_status = NoExit /\ ListenerStart
    \/ Connect
    \/ \E text \in Texts : Publish(text)
    \/ ReadLine
    \/ StreamEnds
    \/ \E outcome \in ChildOutcomes : ChildEnds(outcome)

SpecNotify == InitCli /\ [][NextNotify]_vars

\* the same program against a remote whose list pages may come back empty
\* while carrying a continuation token
NextSparse ==
    \/ Next
    \/ SyncListEmptyPage

SpecSparse == Init /\ [][NextSparse]_vars

\* the same program on a mailbox that another user labels while a pass runs
NextRace ==
    \/ Next
    \/ KeepAdded

SpecRace == Init /\ [][NextRace]_vars

(* ----------------------------- properties ------------------------------ *)
\* remote facts about message g: dated before cutoff c; carrying the Keep label
Expired(g, c) == mailbox[g].date < c
Protected(g) == LabelIdOf(KEEP_LABEL) \in mailbox[g].labelIds

\* the rows of message g in store c
RowsOf(c, g) == {r \in c.emails : r.gmail_id = g}

C2_NoPartialMessage ==
    \A r \in db.emails :
        Cardinality({a \in db.attachments : a.message_id = r.message_id})
            = r.attachment_count

\* C3.  In every state, of the committed store and of the connection's view of
\* it, at most one Message row has a given gmail_id and at most one a given
\* message_id.
C3_UniqueRows ==
    \A c \in {db, conn} : \A r1, r2 \in c.emails :
        (r1.gmail_id = r2.gmail_id \/ r1.message_id = r2.message_id) => r1 = r2

\* two messages have the same Message-ID; one is archived, and the other was
\* processed (its raw file is the one on disk) and has no row
C3_Witness ==
    \E g1, g2 \in GmailIds :
        /\ g1 # g2
        /\ MessageIdOf(g1) = MessageIdOf(g2)
        /\ HasRow(db, g1)
        /\ ~HasRow(db, g2)
        /\ EmlPath(g2) \in DOMAIN files
        /\ files[EmlPath(g2)] = g2

\* C4.  The step that decides a candidate whose fetched label set contains the
\* keep label id issues no trash call and trashes nothing; it adds one to the
\* kept count and nothing to the deleted count.
C4_KeptNeverTrashed ==
    [][(pc = "ret_decide" /\ pc' = "ret_page" /\ label_id \in current_labels) =>
          /\ trashed' = trashed
          /\ hist'.trash_calls = hist.trash_calls
          /\ counts'.kept = counts.kept + 1
          /\ counts'.deleted = counts.deleted]_vars

\* a real pass has kept a protected, expired candidate
C4_Witness ==
    /\ pc = "ret_page"
    /\ ~dry_run
    /\ counts.kept >= 1
    /\ \E g \in GmailIds : Protected(g) /\ Expired(g, cutoff) /\ g \notin trashed

\* C5.  No step of a dry-run pass issues a trash call, changes the remote
\* mailbox, or changes the store (rows, flags, cleanup_runs, files).
C5_DryRunNoOp ==
    [][dry_run =>
          /\ hist'.trash_calls = {}
          /\ <<mailbox, label_dir, trashed>>' = <<mailbox, label_dir, trashed>>
          /\ db' = db
          /\ conn' = db
          /\ files' = files]_vars

\* a dry-run pass is through its candidates and has counted, as one it would
\* delete, an archived message whose flag is unset
C5_Witness ==
    /\ pc = "ret_log"
    /\ dry_run
    /\ counts.deleted >= 1
    /\ \E g \in GmailIds :
          /\ Expired(g, cutoff) /\ ~Protected(g) /\ g \notin trashed
          /\ \E r \in RowsOf(db, g) : r.deleted_from_gmail = 0

\* C6.  No step removes a Message row, an Attachment row or an index entry,
\* and none clears a flag; a step of a retention pass leaves the rows (but for
\* their flags), the Attachment rows, the index and the files as they were.
C6_ArchiveNeverShrinks ==
    [][/\ \A r \in db.emails : [r EXCEPT !.deleted_from_gmail = 1] \in db'.emails
                               \/ r \in db'.emails
       /\ db.attachments \subseteq db'.attachments
       /\ db.emails_fts \subseteq db'.emails_fts
       /\ pc \in RetPcs =>
             /\ {[r EXCEPT !.deleted_from_gmail = 0] : r \in db'.emails}
                    = {[r EXCEPT !.deleted_from_gmail = 0] : r \in db.emails}
             /\ Cardinality(db'.emails) = Cardinality(db.emails)
             /\ db'.attachments = db.attachments
             /\ db'.emails_fts = db.emails_fts
             /\ files' = files]_vars

\* a message with an attachment was archived and then trashed by retention:
\* its row is flagged, and the Attachment row and index entry are there
C6_Witness ==
    \E r \in db.emails :
        /\ r.deleted_from_gmail = 1
        /\ r.gmail_id \in trashed
        /\ r.attachment_count >= 1
        /\ \E a \in db.attachments : a.message_id = r.message_id
        /\ FtsEntry(r) \in db.emails_fts

\* C7, as amended.  Every message a retention pass trashes is the candidate of
\* a pass that is not a dry run, is dated before that pass's cutoff, and was
\* fetched without the keep label id.  (A row for it need not exist.)
C7_TrashedWasExpired ==
    [][\A g \in trashed' \ trashed :
          /\ pc = "ret_decide"
          /\ ~dry_run
          /\ g = Head(results.messages)
          /\ Expired(g, cutoff)
          /\ label_id \notin current_labels]_vars

\* retention has trashed an expired message that was never archived
C7_Witness ==
    \E g \in trashed : RowsOf(db, g) = {} /\ \A now \in Nows : Expired(g, now - RETENTION_DAYS)

\* C7 as claimed: every trashed message has a Message row
C7_AsClaimed == \A g \in trashed : HasRow(db, g)

\* C8.  What a pass lists and what it decides are functions of the remote
\* state, the cutoff and the mode alone, whatever the store holds: the first
\* page is cut from the remote messages dated before the cutoff, a trash call
\* is issued for a candidate exactly when the pass is not a dry run and the
\* fetched labels lack the keep label id, and the candidate is kept exactly
\* when they contain it.  Two passes that differ only in the store therefore
\* issue the same trash calls and keep the same messages.
C8_DecisionFromRemoteOnly ==
    [][/\ (pc = "ret_list" /\ pc' = "ret_page" /\ page_token = NoToken) =>
             /\ Len(listing') = Cardinality({g \in GmailIds : Expired(g, cutoff) /\ g \notin trashed})
             /\ \A i \in 1..Len(listing') :
                   Expired(listing'[i], cutoff) /\ listing'[i] \notin trashed
       /\ (pc = "ret_decide" /\ pc' = "ret_page") =>
             LET g == Head(results.messages)
             IN /\ g \in hist'.trash_calls <=> (~dry_run /\ label_id \notin current_labels)
                /\ counts'.kept = counts.kept + (IF label_id \in current_labels THEN 1 ELSE 0)]_vars

\* one pass has issued trash calls for a message the store has a row for and
\* for one it has no row for
C8_Witness ==
    /\ pc \in RetPcs
    /\ \E g1, g2 \in hist.trash_calls : HasRow(db, g1) /\ ~HasRow(db, g2)

C12_SkipChangesNothing ==
    [][(/\ pc = "sync_page" /\ pc' = "sync_page"
        /\ results.messages # <<>>
        /\ RowsOf(conn, Head(results.messages)) # {}) =>
          /\ hist'.fetched = <<>>
          /\ files' = files
          /\ db' = db
          /\ conn' = conn
          /\ counts' = [counts EXCEPT !.skipped = @ + 1]]_vars

\* a run has skipped an archived message whose raw file is on disk
C12_Witness ==
    /\ pc = "sync_page"
    /\ counts.skipped >= 1
    /\ hist.fetched = <<>>
    /\ \E g \in GmailIds : RowsOf(db, g) # {} /\ EmlPath(g) \in DOMAIN files

\* C13.  The step that processes a listed message goes on to the next entry
\* of the page whatever its outcome, the token chain untouched; when it fails
\* neither counter moves, and when it succeeds the message is committed and
\* counted as newly archived.  At the end of the run no more listed messages
\* are without a row than entries have failed (the listed entries that were
\* neither counted as new nor as skipped).
C13_FailureDoesNotAbort ==
    /\ [][(pc = "sync_page" /\ results.messages # <<>>
           /\ hist'.fetched = <<Head(results.messages)>>) =>
             /\ pc' = "sync_page"
             /\ results' = [results EXCEPT !.messages = Tail(@)]
             /\ <<listing, page_token>>' = <<listing, page_token>>
             /\ counts'.skipped = counts.skipped
             /\ IF hist'.raised
                THEN counts'.backed_up = counts.backed_up
                ELSE /\ counts'.backed_up = counts.backed_up + 1
                     /\ RowsOf(db', Head(results.messages)) # {}]_vars
    /\ [](pc = "sync_done" =>
            LET listed == {g \in GmailIds : label_id \in mailbox[g].labelIds /\ g \notin trashed}
            IN Cardinality({g \in listed : RowsOf(conn, g) = {}})
                   <= Cardinality(listed) - counts.backed_up - counts.skipped)

\* a run ends in which the first listed message failed, before any of its
\* rows was inserted, and a later one was archived
C13_Witness ==
    /\ pc = "sync_done"
    /\ hist.failed
    /\ counts.backed_up >= 1
    /\ counts.skipped = 0
    /\ \E g1, g2 \in GmailIds :
          /\ g1 < g2
          /\ label_id \in mailbox[g1].labelIds /\ label_id \in mailbox[g2].labelIds
          /\ RowsOf(conn, g1) = {}
          /\ RowsOf(db, g2) # {}

\* C14.  A step of the loop body that fails (the metadata fetch, the trash
\* call or the flag update raises) leaves the pass in its loop, at the next
\* candidate, the rest of the page and the token chain untouched, and moves
\* neither the deleted nor the kept count; when it is the fetch that failed,
\* no trash call is issued and nothing is trashed.
C14_CandidateFailureDoesNotAbort ==
    [][(pc \in {"ret_page", "ret_decide"} /\ hist'.raised) =>
          /\ pc' = "ret_page"
          /\ results' = [results EXCEPT !.messages = Tail(@)]
          /\ <<listing, page_token, cutoff, label_id, dry_run>>'
                = <<listing, page_token, cutoff, label_id, dry_run>>
          /\ counts' = counts
          /\ pc = "ret_page" =>
                /\ trashed' = trashed
                /\ hist'.trash_calls = hist.trash_calls]_vars

\* a pass has counted a candidate after the fetch of an earlier one failed:
\* the earlier one is expired, unprotected and not in the trash
C14_Witness ==
    /\ pc = "ret_page"
    /\ ~dry_run
    /\ hist.failed
    /\ counts.deleted >= 1
    /\ \E g1, g2 \in GmailIds :
          /\ g1 < g2
          /\ Expired(g1, cutoff) /\ ~Protected(g1)
          /\ g1 \notin hist.trash_calls /\ g1 \notin trashed
          /\ g2 \in trashed /\ g2 \in hist.trash_calls

\* C15.  A sync run follows the continuation tokens to the end: it stops
\* requesting pages only after a page that carries no token, so a run that
\* gets to its summary without a message failing has examined every message
\* under the backup label, each counted as new or as already existing.
C15_EveryPageExamined ==
    (pc = "sync_done" /\ ~hist.failed) =>
        counts.backed_up + counts.skipped
            = Cardinality({g \in GmailIds : label_id \in mailbox[g].labelIds /\ g \notin trashed})

\* C16.  A step of a sync run taken from the head of its loop, where the page
\* is requested, changes no committed row and writes no file.  It leaves the
\* loop for the summary only when the label holds no message at all; when the
\* list call fails the process ends there with an exception, no summary and
\* no further page, and the store holds exactly the committed rows.
C16_ListFailureStopsRun ==
    [][pc = "sync_list" =>
          /\ db' = db
          /\ files' = files
          /\ pc' \in {"sync_page", "sync_done", "idle"}
          /\ pc' = "sync_done" => (page_token = NoToken /\ MatchLabel(label_id) = <<>>)
          /\ pc' = "idle" =>
                /\ exit_status'.cmd = "backup"
                /\ exit_status'.status \in {"exception", "killed"}
                /\ conn' = db
                /\ <<listing, results, page_token>>' = <<<<>>, NoResults, NoToken>>]_vars

\* a sync run has ended with an exception after it had committed a message
\* and before it had examined another one under the backup label
C16_Witness ==
    /\ pc = "idle"
    /\ exit_status = [cmd |-> "backup", status |-> "exception"]
    /\ db.emails # {}
    /\ \E g \in GmailIds :
          /\ get_label_id(BACKUP_LABEL) \in mailbox[g].labelIds
          /\ g \notin trashed
          /\ RowsOf(db, g) = {}
          /\ EmlPath(g) \notin DOMAIN files

\* C17.  When the backup label does not exist on the remote, a sync run fails
\* fast: it never gets to its loop, where pages are listed and messages
\* fetched, it ends with a non-zero exit status, and no file and no Message or
\* attachment row, committed or pending, comes from it.
C17_MissingLabelFailsFast ==
    BACKUP_LABEL \notin label_dir =>
        /\ pc \notin SyncPcs
        /\ exit_status.cmd = "backup" => exit_status.status \in {"exit1", "exception"}
        /\ files = <<>>
        /\ db.emails = {} /\ db.attachments = {}
        /\ conn.emails = {} /\ conn.attachments = {}

\* a sync run has exited with status 1 on a mailbox that has no backup label
C17_Witness ==
    /\ BACKUP_LABEL \notin label_dir
    /\ pc = "idle"
    /\ exit_status = [cmd |-> "backup", status |-> "exit1"]

\* C18.  When the keep label does not exist on the remote, a retention pass
\* still runs: it holds no keep label id, its kept count stays 0, and every
\* candidate whose labels were fetched is treated as eligible when the pass
\* decides on it, counted as deleted in a dry run and sent a trash call
\* otherwise; no cleanup command exits with status 1 for the missing label
\* (it does only for missing credential material).
C18_MissingKeepLabelKeepsNothing ==
    /\ []((pc \in RetPcs /\ KEEP_LABEL \notin label_dir) =>
             (label_id = None /\ counts.kept = 0))
    /\ [](exit_status.status = "exit1" =>
             (exit_status.cmd = "backup" \/ get_gmail_service(creds) = "exit1"))
    /\ [][(pc = "ret_decide" /\ pc' = "ret_page" /\ KEEP_LABEL \notin label_dir) =>
             IF dry_run
             THEN counts'.deleted = counts.deleted + 1
             ELSE Head(results.messages) \in hist'.trash_calls]_vars

\* a pass over a mailbox without keep label has come to the end of its loop
\* with every expired message trashed
C18_Witness ==
    /\ KEEP_LABEL \notin label_dir
    /\ pc = "ret_log"
    /\ ~dry_run
    /\ counts.kept = 0
    /\ counts.deleted >= 1
    /\ \A g \in GmailIds : Expired(g, cutoff) => g \in trashed

C20_DryRunFlagHonoured ==
    (pc = "ret_list" /\ argv # <<>> /\ argv[Len(argv)] = "--dry-run") => dry_run

\* C21.  No step of a sync or retention run changes a committed Message row
\* other than by setting its remotely-deleted flag: every row of the store is
\* still there after the step, the same in every column, except that a flag
\* that was 0 may be 1; a flag that is 1 stays 1.
C21_RowsImmutableButFlag ==
    [][\A r \in db.emails :
          \/ r \in db'.emails
          \/ /\ r.deleted_from_gmail = 0
             /\ [r EXCEPT !.deleted_from_gmail = 1] \in db'.emails]_vars

\* a sync run has added a row to a store that holds a row flagged by an
\* earlier retention pass
C21_Witness ==
    \E r1, r2 \in db.emails :
        /\ r1.deleted_from_gmail = 1
        /\ r2.deleted_from_gmail = 0
        /\ r2.rowid > r1.rowid

Printed == {stdout.rows[i] : i \in 1..Len(stdout.rows)}

\* row r holds the word of the last search in its subject or body, whatever
\* the case of the letters
HoldsQuery(r) == Lower(stdout.query) \in {Lower(w) : w \in r.subject \cup r.body_text}

\* C23, as amended.  A search for a token of the subject or body of an
\* archived message returns that message, or it returns SearchLimit matches
\* none of which is older than the message; and in every committed store
\* state each Message row has exactly one index entry, built from its subject,
\* sender, recipients and body, the flagged rows included.
C23_SearchFindsArchived ==
    /\ stdout.cmd = "search" =>
          \A r \in db.emails : HoldsQuery(r) =>
              \/ r.rowid \in Printed
              \/ /\ Len(stdout.rows) = SearchLimit
                 /\ \A m \in db.emails : m.rowid \in Printed =>
                        (HoldsQuery(m) /\ m.date_epoch >= r.date_epoch)
    /\ \A r \in db.emails :
          {e \in db.emails_fts : e.rowid = r.rowid} =
              {[rowid |-> r.rowid,
                text |-> {Lower(w) : w \in r.subject \cup r.sender
                                           \cup r.recipients \cup r.body_text}]}

\* a search for "invoice" has returned a row whose subject holds "Invoice" and
\* whose remotely-deleted flag is set
C23_Witness ==
    /\ stdout.cmd = "search"
    /\ stdout.query = "invoice"
    /\ \E r \in db.emails :
          /\ r.rowid \in Printed
          /\ r.deleted_from_gmail = 1
          /\ "Invoice" \in r.subject

\* C23 as claimed: a search for a token of an archived message returns the
\* message
C23_AsClaimed ==
    stdout.cmd = "search" =>
        \A r \in db.emails : HoldsQuery(r) => r.rowid \in Printed

\* the row of the committed store that the i-th printed line shows
PrintedRow(i) == CHOOSE r \in db.emails : r.rowid = stdout.rows[i]

\* the rows of the committed store that match the word of the last search in
\* one of the indexed columns
MatchingRows ==
    {r \in db.emails :
        Lower(stdout.query) \in {Lower(w) : w \in r.subject \cup r.sender
                                              \cup r.recipients \cup r.body_text}}

C28_UsageErrorsExitNonZero ==
    /\ [][(argv' # argv /\ argv' \in BadArgs) =>
             /\ pc = "idle" /\ pc' = "idle"
             /\ exit_status'.status = "exit1"
             /\ stdout' = NoOutput
             /\ UNCHANGED <<mailbox, label_dir, trashed, db, conn, files>>]_vars
    /\ [](BACKUP_LABEL \notin label_dir =>
             /\ pc \notin SyncPcs
             /\ exit_status.cmd = "backup" => exit_status.status # "ok"
             /\ db.emails = {} /\ files = <<>>)
    /\ [](creds = "none" =>
             /\ pc \notin SyncPcs \cup RetPcs
             /\ exit_status.cmd \in {"backup", "cleanup", "cleanup --dry-run"}
                   => exit_status.status = "exit1"
             /\ db = EmptyDb /\ files = <<>> /\ trashed = {})

\* a search without a query has exited with status 1 on a store that holds an
\* archived message
C28_Witness ==
    /\ argv = <<"backup.py", "search">>
    /\ exit_status = [cmd |-> "search", status |-> "exit1"]
    /\ db.emails # {}

\* C25.  The listener never has two command subprocesses in flight: at most
\* one child runs, and while one runs the listener waits in subprocess.run
\* and reads no line of the response.
C25_OneChildAtMost ==
    /\ Len(listener.children) <= 1
    /\ listener.children # <<>> <=> listener.lpc = "run"
    /\ listener.lpc = "run" => listener.running

\* a command is waiting in the response while the child of another runs
C25_Witness ==
    /\ Len(listener.children) = 1
    /\ \E i \in 1..Len(listener.stream) :
          /\ listener.stream[i].text \in DOMAIN COMMANDS
          /\ listener.stream[i].during

\* C26.  A command that arrives while another is running is never executed,
\* neither while the other runs nor after it.
C26_BusyCommandNeverRuns ==
    \A i \in 1..Len(listener.executed) : ~listener.executed[i].during

\* two listener states that differ at most in the send_ntfy calls recorded
SameButSent(a, b) == [a EXCEPT !.sent = <<>>] = [b EXCEPT !.sent = <<>>]

\* C27.  send_ntfy never raises to its caller and posts nothing when no topic
\* is configured; the end of a retention pass comes to the same committed
\* store (the logged counts included) and the same exit status whether the
\* post succeeds or raises, and a listener handling a line or the end of a
\* child comes to the same state; a pass whose notification failed has exited
\* with status 0.
C27_DeliveryNeverMatters ==
    /\ \A topic \in NtfyTopics, post \in PostOutcomes :
          /\ ~send_ntfy(topic, "Email Cleanup Complete", post).raised
          /\ topic = "" => send_ntfy(topic, "Email Cleanup Complete", post).calls = <<>>
    /\ pc = "ret_log" =>
          \A topic \in NtfyTopics :
              /\ RetLogOutcome(topic, "ok").db = RetLogOutcome(topic, "raises").db
              /\ RetLogOutcome(topic, "ok").exit_status
                    = RetLogOutcome(topic, "raises").exit_status
              /\ topic = "" => RetLogOutcome(topic, "ok").ntfy = <<>>
    /\ (listener.lpc = "read" /\ listener.stream # <<>>) =>
          \A topic \in NtfyTopics, spawns \in BOOLEAN :
              /\ SameButSent(handle_line(listener, topic, "ok", spawns),
                             handle_line(listener, topic, "raises", spawns))
              /\ topic = "" => handle_line(listener, topic, "ok", spawns).sent = <<>>
    /\ listener.children # <<>> =>
          \A topic \in NtfyTopics, outcome \in ChildOutcomes :
              SameButSent(run_command_end(listener, outcome, topic, "ok"),
                          run_command_end(listener, outcome, topic, "raises"))
    /\ (\E i \in 1..Len(ntfy) : ntfy[i].outcome = "failed") =>
          exit_status = [cmd |-> "cleanup", status |-> "ok"]
    /\ (\E i \in 1..Len(listener.sent) : listener.sent[i].outcome = "failed") =>
          listener.lpc \in {"read", "run"}

\* a retention pass has logged its run and exited with status 0 although the
\* post of its notification raised
C27_Witness ==
    /\ pc = "idle"
    /\ exit_status = [cmd |-> "cleanup", status |-> "ok"]
    /\ Len(db.cleanup_runs) >= 1
    /\ \E i \in 1..Len(ntfy) : ntfy[i].outcome = "failed"

\* C29.  In every committed store state the number of Attachment rows of a
\* Message row equals its attachment_count, which is the number of parts of
\* the message that have a filename and a non-empty payload; and
\* has_attachments is 1 exactly when attachment_count is positive.
C29_AttachmentCountsAgree ==
    \A r \in db.emails :
        /\ Cardinality({a \in db.attachments : a.message_id = r.message_id})
              = r.attachment_count
        /\ r.attachment_count = Len(extract_attachments(mailbox[r.gmail_id].parts))
        /\ r.has_attachments = 1 <=> r.attachment_count > 0

\* C30.  The raw file and the attachment files of a Message row hold the bytes
\* of that message in every later state: processing another message, one that
\* shares its Message-ID and is then rejected included, never overwrites them.
C30_FilesKeepTheirMessage ==
    \A r \in db.emails :
        /\ r.raw_path \in DOMAIN files
        /\ files[r.raw_path] = r.gmail_id
        /\ \A a \in db.attachments : a.message_id = r.message_id =>
              /\ a.local_path \in DOMAIN files
              /\ files[a.local_path] = r.gmail_id

\* C31.  At the end of every sync run the count of newly archived messages it
\* reports equals the number of Message rows the run added to the committed
\* store.
C31_NewCountIsRowsAdded ==
    pc = "sync_done" => counts.backed_up = Cardinality(db.emails) - hist.rows0

\* C32.  When a retention pass that is not a dry run gets to its log
\* statement, the deleted count it is about to record equals the number of
\* messages for which a trash call of the pass succeeded.
C32_DeletedCountIsTrashCalls ==
    (pc = "ret_log" /\ ~dry_run) =>
        counts.deleted = Cardinality(hist.trash_calls \cap trashed)

\* C33.  A message is never trashed while it carries the Keep label in the
\* remote mailbox: no step puts into the trash a message that carries the
\* label in the state the step starts from.
C33_NeverTrashedWhileProtected ==
    [][\A g \in GmailIds : (g \in trashed' /\ g \notin trashed) => ~Protected(g)]_vars

\* C34.  Outside run_command the running flag is false, whatever the outcome
\* of the last command (exit 0, another exit code, the timeout, an exception
\* starting the subprocess): the listener is never locked out.  A command read
\* from the response is never ignored, and it is run whenever its subprocess
\* can be started.
C34_RunningFlagAlwaysReset ==
    /\ listener.lpc # "run" => ~listener.running
    /\ (listener.lpc = "read" /\ listener.stream # <<>>
            /\ Head(listener.stream).text \in DOMAIN COMMANDS) =>
          \A topic \in NtfyTopics, post \in PostOutcomes :
              /\ LET l == handle_line(listener, topic, post, TRUE)
                 IN /\ l.lpc = "run"
                    /\ l.executed = Append(listener.executed,
                                       [script |-> COMMANDS[Head(listener.stream).text].script,
                                        during |-> Head(listener.stream).during])
                    /\ \A i \in 1..Len(l.sent) : l.sent[i].title # "Ignored"
              /\ ~handle_line(listener, topic, post, FALSE).running
    /\ \A i \in 1..Len(listener.sent) : listener.sent[i].title # "Ignored"

\* a command has just failed (exit code or timeout, the notification says)
\* and the next command is waiting in the response, the flag being false
C34_Witness ==
    /\ listener.lpc = "read"
    /\ ~listener.running
    /\ Len(listener.executed) >= 1
    /\ \E i \in 1..Len(listener.sent) : listener.sent[i].title = "Failed"
    /\ listener.stream # <<>>
    /\ Head(listener.stream).text \in DOMAIN COMMANDS

\* C35.  At most one disk-usage alert is sent within any one-hour window: two
\* alerts in a row are an hour apart or more, also when the monitor thread
\* and the command listener check the disk at the same time.
C35_OneDiskAlertPerHour ==
    Len(frigate.sent_at) = 2 =>
        frigate.sent_at[2] - frigate.sent_at[1] >= DISK_ALERT_COOLDOWN

\* the pair of the event handled last
HandledKey == [camera |-> frigate'.handled.camera, label |-> frigate'.handled.label]

\* C36.  An event is notified exactly when it is a "new" event with a label of
\* the alert set and an event id, and no notification was attempted for its
\* camera/label pair within the cooldown of the label (PET_COOLDOWN_SECONDS
\* for dog and cat, COOLDOWN_SECONDS otherwise).  An event that is not
\* notified changes the time of no attempt and so extends no cooldown.
C36_OneAttemptPerCooldown ==
    [][frigate'.handled # NoEvent =>
          /\ frigate'.attempted <=>
                /\ frigate'.handled.type = "new"
                /\ frigate'.handled.label \in {"person", "car", "dog", "cat"}
                /\ frigate'.handled.id # ""
                /\ \/ HandledKey \notin DOMAIN frigate.attempts
                   \/ frigate.clock - frigate.attempts[HandledKey]
                         >= (IF frigate'.handled.label \in {"dog", "cat"}
                             THEN PET_COOLDOWN_SECONDS ELSE COOLDOWN_SECONDS)
          /\ frigate'.attempted =>
                /\ HandledKey \in DOMAIN frigate'.attempts
                /\ frigate'.attempts[HandledKey] = frigate.clock
                /\ \A k \in DOMAIN frigate.attempts :
                      k # HandledKey => frigate'.attempts[k] = frigate.attempts[k]
          /\ ~frigate'.attempted => frigate'.attempts = frigate.attempts]_vars

\* a new dog event with an id has been dropped 270 seconds after the last
\* notification attempted for its camera, and a person event of the same
\* camera 30 seconds after its own
C36_Witness ==
    /\ ~frigate.attempted
    /\ frigate.handled = [type |-> "new", label |-> "dog", camera |-> "front", id |-> "e1"]
    /\ [camera |-> "front", label |-> "dog"] \in DOMAIN frigate.attempts
    /\ frigate.clock - frigate.attempts[[camera |-> "front", label |-> "dog"]] = 270
    /\ [camera |-> "front", label |-> "person"] \in DOMAIN frigate.attempts
    /\ frigate.clock - frigate.attempts[[camera |-> "front", label |-> "person"]] = 30

(* ------------------------------ paging ------------------------------ *)
\* the number of pages of the token chain that serves the entries of chain:
\* an empty result is one page with no entries and no token
Pages(chain) ==
    IF chain = <<>> THEN 1 ELSE (Len(chain) + PageSize - 1) \div PageSize

\* the entries whose loop body has begun are the first ones listed, in order
DoneIsPrefix ==
    /\ Len(hist.done) <= Len(hist.chain)
    /\ \A i \in 1..Len(hist.done) : hist.done[i] = hist.chain[i]

\* C37: with a finite chain of P pages a sync run and a retention run make at
\* most P list calls and then stop; the next page is requested only when
\* every entry of the pages served so far has been processed; and every
\* listed entry is processed once, in the order listed.
C37_PagingTerminates ==
    /\ hist.lists <= Pages(hist.chain)
    /\ DoneIsPrefix
    /\ hist.lists >= 1 =>
          /\ (hist.lists - 1) * PageSize <= Len(hist.done)
          /\ Len(hist.done) <= hist.lists * PageSize
    /\ (pc \in {"sync_list", "ret_list"} /\ hist.lists >= 1) =>
          /\ hist.lists < Pages(hist.chain)
          /\ Len(hist.done) = hist.lists * PageSize
    /\ pc = "sync_done" => hist.done = hist.chain
    /\ pc = "ret_log" =>
          \/ hist.done = hist.chain
          \/ hist.failed /\ Len(hist.done) = (hist.lists - 1) * PageSize

\* a run that has ended after the last of two or more pages, every entry done
C37_Witness ==
    /\ pc \in {"sync_done", "ret_log"}
    /\ hist.lists >= 2
    /\ hist.lists = Pages(hist.chain)
    /\ hist.done = hist.chain
====
